---------------------------- MODULE Spec2Model ----------------------------
(***************************************************************************)
(* A model of the 2D physics engine: the ball store (objects.js), the      *)
(* boundary pass (environment.js), the constants (shared.js) and the       *)
(* frame driver (main.js).                                                 *)
(*                                                                         *)
(* JavaScript numbers are modelled as exact extended rationals <<n, d>>:   *)
(* d > 0 is the reduced fraction n/d, <<1,0>> is +Infinity, <<-1,0>> is    *)
(* -Infinity and <<0,0>> is NaN.  Rounding of IEEE doubles is not          *)
(* modelled: every arithmetic step is exact.                               *)
(***************************************************************************)
EXTENDS Integers, Sequences, FiniteSets, TLC

VARIABLES
  balls,       \* objects.js `balls`: the store, a sequence of ball records
  pc,          \* the last call update() completed ("idle": no callback is running)
  lastTime,    \* main.js `lastTime`, in ms
  physics,     \* the PhysicsState object built by the running frame
  canvas,      \* environment.js canvas: [width, height]
  rafPending,  \* number of frame callbacks scheduled by requestAnimationFrame
  frame,       \* number of completed frames
  calls,       \* the calls update() has made so far in the running frame
  rendered,    \* the ball list last handed to render()
  controls,    \* the sliders of the page: [gravity, friction, drag]
  loop,        \* handleBallCollisions followed call by call: its loop
               \* variables i, j and the pairs it has resolved so far
  pre,         \* harness: the input of the function under test
  passes,      \* harness: number of applications of the function under test
  path         \* harness: the return point the last application left through

vars == <<balls, pc, lastTime, physics, canvas, rafPending, frame, calls,
          rendered, controls, loop, pre, passes, path>>

-----------------------------------------------------------------------------
(* JavaScript numbers *)

Sgn(i) == IF i > 0 THEN 1 ELSE IF i < 0 THEN -1 ELSE 0

IAbs(i) == IF i < 0 THEN -i ELSE i

RECURSIVE Gcd(_, _)
Gcd(a, b) == IF b = 0 THEN a ELSE Gcd(b, a % b)

\* The number n/d, reduced; d = 0 gives an infinity or NaN.
R(n, d) ==
  IF d = 0 THEN <<Sgn(n), 0>>
  ELSE LET g == Gcd(IAbs(n), IAbs(d))
           s == IF d < 0 THEN -1 ELSE 1
       IN  <<(s * n) \div g, (s * d) \div g>>

I(n) == <<n, 1>>

NaN == <<0, 0>>

IsNaN(a) == a[1] = 0 /\ a[2] = 0

IsFinite(a) == a[2] > 0

RAdd(a, b) ==
  IF a[2] = 0 /\ b[2] = 0
  THEN (IF a[1] = b[1] THEN a ELSE NaN)
  ELSE IF a[2] = 0 \/ b[2] = 0 THEN R(a[1] * b[2] + b[1] * a[2], 0)
  ELSE LET g == Gcd(a[2], b[2])
       IN  R(a[1] * (b[2] \div g) + b[1] * (a[2] \div g), (a[2] \div g) * b[2])

RNeg(a) == <<-a[1], a[2]>>

RSub(a, b) == RAdd(a, RNeg(b))

RMul(a, b) ==
  IF a[2] = 0 \/ b[2] = 0 THEN R(a[1] * b[1], 0)
  ELSE LET g1 == Gcd(IAbs(a[1]), b[2])
           g2 == Gcd(IAbs(b[1]), a[2])
       IN  R((a[1] \div g1) * (b[1] \div g2), (a[2] \div g2) * (b[2] \div g1))

RDiv(a, b) ==
  IF IsNaN(a) \/ IsNaN(b) \/ (a[2] = 0 /\ b[2] = 0) THEN NaN
  ELSE IF b[1] = 0 THEN R(a[1], 0)
  ELSE IF a[2] = 0 \/ b[2] = 0 THEN R(a[1] * b[2] * Sgn(b[1]), a[2] * IAbs(b[1]))
  ELSE RMul(a, <<b[2] * Sgn(b[1]), IAbs(b[1])>>)

\* a < b, a > b, a <= b, a >= b, a === b: all false when a NaN is involved.
RLt(a, b) ==
  /\ ~IsNaN(a) /\ ~IsNaN(b) /\ a # b
  /\ IF a[2] = 0 \/ b[2] = 0 THEN a[1] * b[2] < b[1] * a[2]
     ELSE LET g == Gcd(a[2], b[2])
          IN  a[1] * (b[2] \div g) < b[1] * (a[2] \div g)

RGt(a, b) == RLt(b, a)

RGe(a, b) == ~IsNaN(a) /\ ~IsNaN(b) /\ ~RLt(a, b)

RLe(a, b) == RGe(b, a)

REq(a, b) == ~IsNaN(a) /\ a = b

\* Math.abs, Math.sign, Math.max
RAbs(a) == <<IAbs(a[1]), a[2]>>

RSign(a) == IF IsNaN(a) THEN NaN ELSE I(Sgn(a[1]))

RMax(a, b) == IF IsNaN(a) \/ IsNaN(b) THEN NaN ELSE IF RLt(a, b) THEN b ELSE a

\* The largest k in lo..hi with k*k <= n (lo*lo <= n < (hi+1)*(hi+1)).
RECURSIVE ISqrtIn(_, _, _)
ISqrtIn(n, lo, hi) ==
  IF lo >= hi THEN lo
  ELSE LET mid == (lo + hi + 1) \div 2
       IN  IF mid * mid <= n THEN ISqrtIn(n, mid, hi) ELSE ISqrtIn(n, lo, mid - 1)

ISqrt(n) == ISqrtIn(n, 0, IF n < 46340 THEN n ELSE 46340)

\* Math.sqrt: exact when the root is rational; otherwise rounded down to a
\* whole number.
RSqrt(a) ==
  IF IsNaN(a) \/ a[1] < 0 THEN NaN
  ELSE IF a[2] = 0 THEN a
  ELSE LET rn == ISqrt(a[1])
           rd == ISqrt(a[2])
       IN  IF rn * rn = a[1] /\ rd * rd = a[2] THEN R(rn, rd)
           ELSE I(ISqrt(a[1] \div a[2]))


-----------------------------------------------------------------------------
(* shared.js: PHYSICS_CONFIG *)

METER == 100

RESTITUTION_WALL_FLOOR == R(7, 10)

RESTITUTION_BALL_BALL == R(9, 10)

FLUID_DENSITY == R(1225, 1000)

\* Math.PI, as the rational 22/7
PI == R(22, 7)

\* shared.js generateBallColor: the string `hsl(${(index * 50) % 360}, 70%, 50%)`,
\* kept as its parts
generateBallColor(index) == <<"hsl", (index * 50) % 360, 70, 50>>

\* shared.js createPhysicsState, with the deltaTime main.js adds to it
createPhysicsState(gravity, friction, drag, deltaTime) ==
  [gravity |-> gravity, friction |-> friction, drag |-> drag,
   deltaTime |-> deltaTime]

-----------------------------------------------------------------------------
(* objects.js *)

\* Mutant of createBall: the horizontal velocity not centred on 0
createBallVxUncentred(bs, initialX, initialY, radiusM, mass, rnd) ==
  [x |-> initialX, y |-> initialY,
   radiusM |-> radiusM, radius |-> RMul(radiusM, I(METER)),
   vx |-> RMul(rnd, I(2)), vy |-> I(0),
   mass |-> mass, color |-> generateBallColor(Len(bs))]

\* Mutant of createBall: the radius in pixels set to the radius in metres
createBallRadiusUnscaled(bs, initialX, initialY, radiusM, mass, rnd) ==
  [x |-> initialX, y |-> initialY,
   radiusM |-> radiusM, radius |-> radiusM,
   vx |-> RMul(RSub(rnd, R(1, 2)), I(2)), vy |-> I(0),
   mass |-> mass, color |-> generateBallColor(Len(bs))]

\* createBall: the ball record; bs is the store the function reads
\* balls.length from, rnd is the value Math.random() returned
createBall(bs, initialX, initialY, radiusM, mass, rnd) ==
  [x |-> initialX, y |-> initialY,
   radiusM |-> radiusM, radius |-> RMul(radiusM, I(METER)),
   vx |-> RMul(RSub(rnd, R(1, 2)), I(2)), vy |-> I(0),
   mass |-> mass, color |-> generateBallColor(Len(bs))]

\* Mutant of PositionStep: the conversion from metres to pixels left out
PositionStepNoMeter(p, v, deltaTime) == RAdd(p, RMul(v, deltaTime))

\* updatePhysics lines 83-84: p += v * deltaTime * METER
PositionStep(p, v, deltaTime) == RAdd(p, RMul(RMul(v, deltaTime), I(METER)))

\* Mutant of IntegrateBall: the vertical drag and deadband computed from the
\* velocity before gravity was added
IntegrateBallDragBeforeGravity(ball, deltaTime, physicsState) ==
  LET m == ball.mass
      g == physicsState.gravity
      Cd == physicsState.drag
      rho == FLUID_DENSITY
      radiusM == ball.radiusM
      area == RMul(PI, RMul(radiusM, radiusM))
      vy1 == RAdd(ball.vy, RMul(g, deltaTime))
      speedX == RAbs(ball.vx)
      speedY == RAbs(ball.vy)
      k == RMul(RMul(RMul(R(1, 2), Cd), rho), area)
      dragMagnitudeX == RMul(RMul(k, speedX), speedX)
      dragMagnitudeY == RMul(RMul(k, speedY), speedY)
      vx2 == IF RGt(speedX, R(1, 100))
             THEN RSub(ball.vx,
                       RMul(RDiv(RMul(RSign(ball.vx), dragMagnitudeX), m), deltaTime))
             ELSE I(0)
      vy2 == IF RGt(speedY, R(1, 100))
             THEN RSub(vy1,
                       RMul(RDiv(RMul(RSign(vy1), dragMagnitudeY), m), deltaTime))
             ELSE I(0)
  IN  [ball EXCEPT !.vx = vx2, !.vy = vy2,
                   !.x = PositionStep(ball.x, vx2, deltaTime),
                   !.y = PositionStep(ball.y, vy2, deltaTime)]

\* Mutant of IntegrateBall: the drag of each axis computed from the squared
\* total speed
IntegrateBallTotalSpeed(ball, deltaTime, physicsState) ==
  LET m == ball.mass
      g == physicsState.gravity
      Cd == physicsState.drag
      rho == FLUID_DENSITY
      radiusM == ball.radiusM
      area == RMul(PI, RMul(radiusM, radiusM))
      vy1 == RAdd(ball.vy, RMul(g, deltaTime))
      speedX == RAbs(ball.vx)
      speedY == RAbs(vy1)
      k == RMul(RMul(RMul(R(1, 2), Cd), rho), area)
      total == RAdd(RMul(speedX, speedX), RMul(speedY, speedY))
      dragMagnitudeX == RMul(k, total)
      dragMagnitudeY == RMul(k, total)
      vx2 == IF RGt(speedX, R(1, 100))
             THEN RSub(ball.vx,
                       RMul(RDiv(RMul(RSign(ball.vx), dragMagnitudeX), m), deltaTime))
             ELSE I(0)
      vy2 == IF RGt(speedY, R(1, 100))
             THEN RSub(vy1,
                       RMul(RDiv(RMul(RSign(vy1), dragMagnitudeY), m), deltaTime))
             ELSE I(0)
  IN  [ball EXCEPT !.vx = vx2, !.vy = vy2,
                   !.x = PositionStep(ball.x, vx2, deltaTime),
                   !.y = PositionStep(ball.y, vy2, deltaTime)]

\* Mutant of IntegrateBall: a speed of exactly 0.01 still takes the drag
\* branch
IntegrateBallDeadbandOpen(ball, deltaTime, physicsState) ==
  LET m == ball.mass
      g == physicsState.gravity
      Cd == physicsState.drag
      rho == FLUID_DENSITY
      radiusM == ball.radiusM
      area == RMul(PI, RMul(radiusM, radiusM))
      vy1 == RAdd(ball.vy, RMul(g, deltaTime))
      speedX == RAbs(ball.vx)
      speedY == RAbs(vy1)
      k == RMul(RMul(RMul(R(1, 2), Cd), rho), area)
      dragMagnitudeX == RMul(RMul(k, speedX), speedX)
      dragMagnitudeY == RMul(RMul(k, speedY), speedY)
      vx2 == IF RGe(speedX, R(1, 100))
             THEN RSub(ball.vx,
                       RMul(RDiv(RMul(RSign(ball.vx), dragMagnitudeX), m), deltaTime))
             ELSE I(0)
      vy2 == IF RGe(speedY, R(1, 100))
             THEN RSub(vy1,
                       RMul(RDiv(RMul(RSign(vy1), dragMagnitudeY), m), deltaTime))
             ELSE I(0)
  IN  [ball EXCEPT !.vx = vx2, !.vy = vy2,
                   !.x = PositionStep(ball.x, vx2, deltaTime),
                   !.y = PositionStep(ball.y, vy2, deltaTime)]

\* The body of the forEach of updatePhysics, for one ball
IntegrateBall(ball, deltaTime, physicsState) ==
  LET m == ball.mass
      g == physicsState.gravity
      Cd == physicsState.drag
      rho == FLUID_DENSITY
      radiusM == ball.radiusM
      area == RMul(PI, RMul(radiusM, radiusM))
      vy1 == RAdd(ball.vy, RMul(g, deltaTime))
      speedX == RAbs(ball.vx)
      speedY == RAbs(vy1)
      k == RMul(RMul(RMul(R(1, 2), Cd), rho), area)
      dragMagnitudeX == RMul(RMul(k, speedX), speedX)
      dragMagnitudeY == RMul(RMul(k, speedY), speedY)
      vx2 == IF RGt(speedX, R(1, 100))
             THEN RSub(ball.vx,
                       RMul(RDiv(RMul(RSign(ball.vx), dragMagnitudeX), m), deltaTime))
             ELSE I(0)
      vy2 == IF RGt(speedY, R(1, 100))
             THEN RSub(vy1,
                       RMul(RDiv(RMul(RSign(vy1), dragMagnitudeY), m), deltaTime))
             ELSE I(0)
  IN  [ball EXCEPT !.vx = vx2, !.vy = vy2,
                   !.x = PositionStep(ball.x, vx2, deltaTime),
                   !.y = PositionStep(ball.y, vy2, deltaTime)]

\* updatePhysics: every ball of the store, in store order
updatePhysics(bs, deltaTime, physicsState) ==
  [i \in 1..Len(bs) |-> IntegrateBall(bs[i], deltaTime, physicsState)]

\* Mutant of Colliding: the dist === 0 test left out
CollidingNoZeroTest(dist, minDistance) == ~RGe(dist, minDistance)

\* resolveBallCollision line 120: the negation of the early-return test
Colliding(dist, minDistance) == ~(RGe(dist, minDistance) \/ REq(dist, I(0)))

\* Mutant of Separating: the comparison reversed
SeparatingReversed(normalVelocity) == RLt(normalVelocity, I(0))

\* Mutant of Separating: a pair that neither approaches nor separates is
\* skipped too
SeparatingOrGrazing(normalVelocity) == RGe(normalVelocity, I(0))

\* resolveBallCollision line 140: the balls are moving apart
Separating(normalVelocity) == RGt(normalVelocity, I(0))

\* Mutant of ImpulseMagnitude: the leading minus sign lost
ImpulseMagnitudeWrongSign(normalVelocity, m1, m2) ==
  LET e == RESTITUTION_BALL_BALL
  IN  RDiv(RMul(RAdd(I(1), e), normalVelocity),
           RAdd(RDiv(I(1), m1), RDiv(I(1), m2)))

\* resolveBallCollision lines 148-149
ImpulseMagnitude(normalVelocity, m1, m2) ==
  LET e == RESTITUTION_BALL_BALL
  IN  RDiv(RMul(RNeg(RAdd(I(1), e)), normalVelocity),
           RAdd(RDiv(I(1), m1), RDiv(I(1), m2)))

\* Mutant of ImpulseDv: the division by the ball's mass left out
ImpulseDvNoMass(impulseMagnitude, mass, n) == RMul(impulseMagnitude, n)

\* Mutant of ImpulseDv: the component of the normal taken without its sign
ImpulseDvUnsigned(impulseMagnitude, mass, n) ==
  RMul(RDiv(impulseMagnitude, mass), RAbs(n))

\* resolveBallCollision lines 153-156: (impulseMagnitude / mass) * n
ImpulseDv(impulseMagnitude, mass, n) == RMul(RDiv(impulseMagnitude, mass), n)

\* Mutant of SeparationAmount: the whole overlap instead of half of it
SeparationAmountWhole(minDistance, dist) == RSub(minDistance, dist)

\* Mutant of SeparationAmount: the share of the overlap taken as a third
SeparationAmountThird(minDistance, dist) == RDiv(RSub(minDistance, dist), I(3))

\* resolveBallCollision lines 160-161
SeparationAmount(minDistance, dist) == RDiv(RSub(minDistance, dist), I(2))

\* resolveBallCollision: the two balls as the call leaves them, and the
\* return it left through ("noCollision": line 121, before any division by
\* dist; "separating": line 141; "resolved": the end of the function)
resolveBallCollision(b1, b2) ==
  LET dx == RSub(b2.x, b1.x)
      dy == RSub(b2.y, b1.y)
      dist == RSqrt(RAdd(RMul(dx, dx), RMul(dy, dy)))
      minDistance == RAdd(b1.radius, b2.radius)
  IN  IF ~Colliding(dist, minDistance)
      THEN [b1 |-> b1, b2 |-> b2, path |-> "noCollision"]
      ELSE
        LET nx == RDiv(dx, dist)
            ny == RDiv(dy, dist)
            rvx == RSub(b2.vx, b1.vx)
            rvy == RSub(b2.vy, b1.vy)
            normalVelocity == RAdd(RMul(rvx, nx), RMul(rvy, ny))
        IN  IF Separating(normalVelocity)
            THEN [b1 |-> b1, b2 |-> b2, path |-> "separating"]
            ELSE
              LET impulseMagnitude ==
                    ImpulseMagnitude(normalVelocity, b1.mass, b2.mass)
                  separationAmount == SeparationAmount(minDistance, dist)
              IN  [b1 |-> [b1 EXCEPT
                       !.vx = RSub(b1.vx, ImpulseDv(impulseMagnitude, b1.mass, nx)),
                       !.vy = RSub(b1.vy, ImpulseDv(impulseMagnitude, b1.mass, ny)),
                       !.x = RSub(b1.x, RMul(separationAmount, nx)),
                       !.y = RSub(b1.y, RMul(separationAmount, ny))],
                   b2 |-> [b2 EXCEPT
                       !.vx = RAdd(b2.vx, ImpulseDv(impulseMagnitude, b2.mass, nx)),
                       !.vy = RAdd(b2.vy, ImpulseDv(impulseMagnitude, b2.mass, ny)),
                       !.x = RAdd(b2.x, RMul(separationAmount, nx)),
                       !.y = RAdd(b2.y, RMul(separationAmount, ny))],
                   path |-> "resolved"]

\* Mutant of InnerStart: the inner loop started at the outer index
InnerStartSelf(i) == i

\* handleBallCollisions line 98: the first j of the inner loop, `let j = i + 1`
InnerStart(i) == i + 1

\* The loops of handleBallCollisions from the pair (i, j) on
RECURSIVE PairLoop(_, _, _)
PairLoop(bs, i, j) ==
  IF i > Len(bs) THEN bs
  ELSE IF j > Len(bs) THEN PairLoop(bs, i + 1, i + 2)
  ELSE LET r == resolveBallCollision(bs[i], bs[j])
       IN  PairLoop([bs EXCEPT ![i] = r.b1, ![j] = r.b2], i, j + 1)

handleBallCollisions(bs) == PairLoop(bs, 1, 2)

\* Mutant of spawnBall: the new ball put at the front of the store
spawnBallFront(bs, config, rnd) ==
  << createBall(bs, config.x, config.y, config.radiusM, config.mass, rnd) >> \o bs

\* spawnBall: createBall, then balls.push
spawnBall(bs, config, rnd) ==
  Append(bs, createBall(bs, config.x, config.y, config.radiusM, config.mass, rnd))

getBalls(bs) == bs

getBallCount(bs) == Len(bs)

\* Mutant of clearAllBalls: only the last ball removed
clearAllBallsPop(bs) == IF bs = << >> THEN bs ELSE SubSeq(bs, 1, Len(bs) - 1)

\* clearAllBalls: balls.length = 0
clearAllBalls(bs) == << >>

-----------------------------------------------------------------------------
(* environment.js *)

getCanvasDimensions(cv) == [width |-> cv.width, height |-> cv.height]

\* Mutant of FrictionStep: friction always subtracted, never snapped to 0
FrictionStepNoSnap(vx, frictionAcceleration, deltaTime) ==
  RSub(vx, RMul(RMul(RSign(vx), frictionAcceleration), deltaTime))

\* Mutant of FrictionStep: the sign of vx left out of the deceleration
FrictionStepUnsigned(vx, frictionAcceleration, deltaTime) ==
  IF RGt(RAbs(vx), RMul(frictionAcceleration, deltaTime))
  THEN RSub(vx, RMul(frictionAcceleration, deltaTime))
  ELSE I(0)

\* handleWallCollisions lines 150-154
FrictionStep(vx, frictionAcceleration, deltaTime) ==
  IF RGt(RAbs(vx), RMul(frictionAcceleration, deltaTime))
  THEN RSub(vx, RMul(RMul(RSign(vx), frictionAcceleration), deltaTime))
  ELSE I(0)

\* Mutant of BounceDeadband: the tiny-bounce stop left out
BounceDeadbandNone(vy) == vy

\* handleWallCollisions lines 157-159
BounceDeadband(vy) == IF RLt(RAbs(vy), R(1, 2)) THEN I(0) ELSE vy

\* Mutant of FloorCollision: the floor test made non-strict
FloorCollisionNonStrict(ball, canvasBounds, physicsState) ==
  IF RGe(RAdd(ball.y, ball.radius), canvasBounds.height)
  THEN LET y1 == RSub(canvasBounds.height, ball.radius)
           vy1 == RMul(ball.vy, RNeg(RESTITUTION_WALL_FLOOR))
           normalForce == RMul(ball.mass, physicsState.gravity)
           frictionAcceleration ==
             RDiv(RMul(physicsState.friction, normalForce), ball.mass)
           vx1 == FrictionStep(ball.vx, frictionAcceleration, physicsState.deltaTime)
           vy2 == BounceDeadband(vy1)
       IN  [ball EXCEPT !.y = y1, !.vy = vy2, !.vx = vx1]
  ELSE ball

\* The floor branch of handleWallCollisions (lines 135-160) for one ball
FloorCollision(ball, canvasBounds, physicsState) ==
  IF RGt(RAdd(ball.y, ball.radius), canvasBounds.height)
  THEN LET y1 == RSub(canvasBounds.height, ball.radius)
           vy1 == RMul(ball.vy, RNeg(RESTITUTION_WALL_FLOOR))
           normalForce == RMul(ball.mass, physicsState.gravity)
           mass == RMax(ball.mass, R(1, 10000))
           frictionAcceleration ==
             RDiv(RMul(physicsState.friction, normalForce), ball.mass)
           vx1 == FrictionStep(ball.vx, frictionAcceleration, physicsState.deltaTime)
           vy2 == BounceDeadband(vy1)
       IN  [ball EXCEPT !.y = y1, !.vy = vy2, !.vx = vx1]
  ELSE ball

\* The right-wall branch (lines 163-166)
RightWallCollision(ball, canvasBounds) ==
  IF RGt(RAdd(ball.x, ball.radius), canvasBounds.width)
  THEN [ball EXCEPT !.x = RSub(canvasBounds.width, ball.radius),
                    !.vx = RMul(ball.vx, RNeg(RESTITUTION_WALL_FLOOR))]
  ELSE ball

\* The left-wall branch (lines 169-172)
LeftWallCollision(ball) ==
  IF RLt(RSub(ball.x, ball.radius), I(0))
  THEN [ball EXCEPT !.x = ball.radius,
                    !.vx = RMul(ball.vx, RNeg(RESTITUTION_WALL_FLOOR))]
  ELSE ball

\* Mutant of WallBall: the ceiling check of the comment at lines 176-179
\* switched on
WallBallCeiling(ball, canvasBounds, physicsState) ==
  LET b == LeftWallCollision(
             RightWallCollision(FloorCollision(ball, canvasBounds, physicsState),
                                canvasBounds))
  IN  IF RLt(RSub(b.y, b.radius), I(0))
      THEN [b EXCEPT !.y = b.radius,
                     !.vy = RMul(b.vy, RNeg(RESTITUTION_WALL_FLOOR))]
      ELSE b

\* Mutant of WallBall: the left wall checked before the right wall
WallBallLeftFirst(ball, canvasBounds, physicsState) ==
  RightWallCollision(
    LeftWallCollision(FloorCollision(ball, canvasBounds, physicsState)),
    canvasBounds)

\* The body of the forEach of handleWallCollisions: floor, right, left
WallBall(ball, canvasBounds, physicsState) ==
  LeftWallCollision(
    RightWallCollision(FloorCollision(ball, canvasBounds, physicsState),
                       canvasBounds))

handleWallCollisions(bs, physicsState, cv) ==
  LET canvasBounds == getCanvasDimensions(cv)
  IN  [i \in 1..Len(bs) |-> WallBall(bs[i], canvasBounds, physicsState)]

\* Mutant of step: the boundary pass run before the body-body pass
stepWallsFirst(bs, physicsState, cv) ==
  getBalls(handleBallCollisions(
    handleWallCollisions(
      updatePhysics(bs, physicsState.deltaTime, physicsState),
      physicsState, cv)))

\* main.js update, lines 57-60: the three physics phases of one frame
step(bs, physicsState, cv) ==
  handleWallCollisions(
    getBalls(handleBallCollisions(
      updatePhysics(bs, physicsState.deltaTime, physicsState))),
    physicsState, cv)

-----------------------------------------------------------------------------
(* Harness state shared by the function-level specifications: the driver's *)
(* variables are parked.                                                   *)

NoPhysics == createPhysicsState(I(0), I(0), I(0), I(0))

\* The sliders where a specification draws their values at the frame instead
NoControls == [gravity |-> I(0), friction |-> I(0), drag |-> I(0)]

\* The loop variables where handleBallCollisions is taken as one step
NoLoop == [i |-> 0, j |-> 0, resolved |-> << >>]

DriverParked ==
  /\ pc = "harness"
  /\ lastTime = 0
  /\ rafPending = 0
  /\ frame = 0
  /\ calls = << >>
  /\ rendered = << >>
  /\ controls = NoControls
  /\ loop = NoLoop

DriverUnchanged ==
  UNCHANGED <<pc, lastTime, rafPending, frame, calls, rendered, controls, loop>>

\* Number of applications of the function under test in one behaviour
MaxPasses == 2

-----------------------------------------------------------------------------
(* SpecPair: handleBallCollisions on a store of exactly two balls *)

PairVel == {I(-1), I(0), I(1)}

PairMass == {I(1), I(3)}

PairRadiusM == {R(1, 10), R(1, 5)}

\* Displacements of the second centre from the first; every one has a
\* rational length (0, 15, 20, 25, 30 or 50)
PairDisp == {<<0, 0>>, <<15, 0>>, <<20, 0>>, <<25, 0>>, <<-15, 0>>, <<0, 15>>,
             <<9, 12>>, <<-12, 16>>, <<18, -24>>, <<30, 40>>}

PairBall(px, py, vx, vy, radiusM, mass) ==
  [x |-> px, y |-> py, radiusM |-> radiusM, radius |-> RMul(radiusM, I(METER)),
   vx |-> vx, vy |-> vy, mass |-> mass]

InitPair ==
  /\ DriverParked
  /\ physics = NoPhysics
  /\ canvas = [width |-> I(0), height |-> I(0)]
  /\ \E d \in PairDisp, v1x \in PairVel, v1y \in PairVel,
        v2x \in PairVel, v2y \in PairVel,
        m1 \in PairMass, m2 \in PairMass, r2 \in PairRadiusM :
        balls = << PairBall(I(100), I(100), v1x, v1y, R(1, 10), m1),
                   PairBall(I(100 + d[1]), I(100 + d[2]), v2x, v2y, r2, m2) >>
  /\ pre = << >>
  /\ passes = 0
  /\ path = "none"

\* One call of handleBallCollisions on the two-ball store
ResolvePair ==
  /\ passes < MaxPasses
  /\ balls' = handleBallCollisions(balls)
  /\ path' = resolveBallCollision(balls[1], balls[2]).path
  /\ pre' = Append(pre, balls)
  /\ passes' = passes + 1
  /\ UNCHANGED <<physics, canvas>>
  /\ DriverUnchanged

NextPair == ResolvePair

SpecPair == InitPair /\ [][NextPair]_vars

-----------------------------------------------------------------------------
(* Properties of the body-body resolver, checked under SpecPair *)

\* The store the last call of handleBallCollisions was given
PairIn == pre[passes]

CentreDx(bs) == RSub(bs[2].x, bs[1].x)

CentreDy(bs) == RSub(bs[2].y, bs[1].y)

CentreDist(bs) ==
  RSqrt(RAdd(RMul(CentreDx(bs), CentreDx(bs)), RMul(CentreDy(bs), CentreDy(bs))))

SumRadii(bs) == RAdd(bs[1].radius, bs[2].radius)

Overlapping(bs) ==
  RGt(CentreDist(bs), I(0)) /\ RLt(CentreDist(bs), SumRadii(bs))

\* The relative velocity of ball 2 with respect to ball 1 in store vs,
\* projected on the unit normal of the centres of store ps
NormalVelocity(vs, ps) ==
  RAdd(RMul(RSub(vs[2].vx, vs[1].vx), RDiv(CentreDx(ps), CentreDist(ps))),
       RMul(RSub(vs[2].vy, vs[1].vy), RDiv(CentreDy(ps), CentreDist(ps))))

MomentumX(bs) == RAdd(RMul(bs[1].mass, bs[1].vx), RMul(bs[2].mass, bs[2].vx))

MomentumY(bs) == RAdd(RMul(bs[1].mass, bs[1].vy), RMul(bs[2].mass, bs[2].vy))

\* C3: a call of the body-body resolver on two overlapping balls whose
\* relative velocity along the normal is vn > 0 leaves both balls unchanged.
C3_SeparatingUntouched ==
  (passes >= 1 /\ Overlapping(PairIn)
     /\ RGt(NormalVelocity(PairIn, PairIn), I(0)))
  => balls = PairIn

C3_Witness ==
  /\ passes = 1
  /\ Overlapping(PairIn)
  /\ RGt(NormalVelocity(PairIn, PairIn), I(0))
  /\ path = "separating"
  /\ balls = PairIn

\* C4: when the centre distance d is at least the sum of the radii, or is 0,
\* the resolver changes neither ball and returns before dividing by d.
C4_NoCollisionShortCircuit ==
  (passes >= 1
     /\ (RGe(CentreDist(PairIn), SumRadii(PairIn))
           \/ REq(CentreDist(PairIn), I(0))))
  => (balls = PairIn /\ path = "noCollision")

C4_Witness ==
  /\ passes = 1
  /\ REq(CentreDist(PairIn), I(0))
  /\ PairIn[1].vx # PairIn[2].vx
  /\ balls = PairIn
  /\ path = "noCollision"

\* C5: for two overlapping, approaching balls of any positive masses the
\* total momentum (both components) is the same before and after the call.
C5_MomentumConserved ==
  (passes >= 1 /\ Overlapping(PairIn)
     /\ RLt(NormalVelocity(PairIn, PairIn), I(0)))
  => (MomentumX(balls) = MomentumX(PairIn) /\ MomentumY(balls) = MomentumY(PairIn))

C5_Witness ==
  /\ passes = 1
  /\ Overlapping(PairIn)
  /\ RLt(NormalVelocity(PairIn, PairIn), I(0))
  /\ PairIn[1].mass # PairIn[2].mass
  /\ path = "resolved"
  /\ balls[1].vx # PairIn[1].vx
  /\ balls[2].vy # PairIn[2].vy

\* C6: for an overlapping pair with vn <= 0 the relative normal speed after
\* the call is at most 0.9 times the relative normal speed before it.
C6_NormalSpeedBounded ==
  (passes >= 1 /\ Overlapping(PairIn)
     /\ RLe(NormalVelocity(PairIn, PairIn), I(0)))
  => RLe(RAbs(NormalVelocity(balls, PairIn)),
         RMul(RESTITUTION_BALL_BALL, RAbs(NormalVelocity(PairIn, PairIn))))

C6_Witness ==
  /\ passes = 1
  /\ Overlapping(PairIn)
  /\ RLt(NormalVelocity(PairIn, PairIn), I(0))
  /\ PairIn[1].mass # PairIn[2].mass
  /\ CentreDx(PairIn) # I(0)
  /\ CentreDy(PairIn) # I(0)
  /\ RGt(NormalVelocity(balls, PairIn), I(0))

\* Scenario A: masses 1, render radius 10, centres 15 apart on the x-axis,
\* velocities (+1, 0) and (-1, 0)
ScenarioA ==
  << PairBall(I(100), I(100), I(1), I(0), R(1, 10), I(1)),
     PairBall(I(115), I(100), I(-1), I(0), R(1, 10), I(1)) >>

\* C7: scenario A, resolved once, ends with velocities (-0.9, 0) and
\* (0.9, 0) and with the centres exactly 20 apart.
C7_ScenarioA ==
  (passes = 1 /\ PairIn = ScenarioA)
  => /\ balls[1].vx = R(-9, 10) /\ balls[1].vy = I(0)
     /\ balls[2].vx = R(9, 10) /\ balls[2].vy = I(0)
     /\ CentreDist(balls) = I(20)

C7_Witness ==
  /\ passes = 1
  /\ PairIn = ScenarioA
  /\ path = "resolved"
  /\ balls[1].x = R(195, 2)
  /\ balls[2].x = R(235, 2)

\* The unit normal from the first centre to the second in store ps
NormalX(ps) == RDiv(CentreDx(ps), CentreDist(ps))

NormalY(ps) == RDiv(CentreDy(ps), CentreDist(ps))

\* The component of ball i's velocity in store vs along the tangent of the
\* centres of store ps
TangentVelocity(vs, ps, i) ==
  RAdd(RMul(vs[i].vx, RNeg(NormalY(ps))), RMul(vs[i].vy, NormalX(ps)))

\* J = -(1 + e) * vn / (1/mass(a) + 1/mass(b)) for the pair of store ps
ScalarJ(ps) ==
  RDiv(RMul(RNeg(RAdd(I(1), RESTITUTION_BALL_BALL)), NormalVelocity(ps, ps)),
       RAdd(RDiv(I(1), ps[1].mass), RDiv(I(1), ps[2].mass)))

\* C20: for an overlapping approaching pair the call changes the velocity
\* of the first body by -J/mass(a) * n and of the second by +J/mass(b) * n,
\* with the one scalar J = -(1+e) * vn / (1/mass(a) + 1/mass(b)), and leaves
\* the component of each velocity perpendicular to n unchanged.
C20_ImpulseAlongNormal ==
  (passes >= 1 /\ Overlapping(PairIn) /\ RLe(NormalVelocity(PairIn, PairIn), I(0)))
  => LET J == ScalarJ(PairIn)
         ka == RNeg(RDiv(J, PairIn[1].mass))
         kb == RDiv(J, PairIn[2].mass)
     IN  /\ RSub(balls[1].vx, PairIn[1].vx) = RMul(ka, NormalX(PairIn))
         /\ RSub(balls[1].vy, PairIn[1].vy) = RMul(ka, NormalY(PairIn))
         /\ RSub(balls[2].vx, PairIn[2].vx) = RMul(kb, NormalX(PairIn))
         /\ RSub(balls[2].vy, PairIn[2].vy) = RMul(kb, NormalY(PairIn))
         /\ \A i \in 1..2 :
               TangentVelocity(balls, PairIn, i) = TangentVelocity(PairIn, PairIn, i)

\* An oblique collision of unequal masses in which both bodies also move
\* along the tangent
C20_Witness ==
  /\ passes = 1
  /\ path = "resolved"
  /\ CentreDx(PairIn) = I(9)
  /\ CentreDy(PairIn) = I(12)
  /\ PairIn[1].mass # PairIn[2].mass
  /\ RLt(NormalVelocity(PairIn, PairIn), I(0))
  /\ TangentVelocity(PairIn, PairIn, 1) # I(0)
  /\ TangentVelocity(PairIn, PairIn, 2) # I(0)
  /\ balls[1].vx # PairIn[1].vx

\* C21: when the resolver resolves a pair (0 < d < sum of radii, vn <= 0),
\* the first body is moved by (minDistance - d)/2 against the normal and the
\* second by the same amount along it, whatever the masses; afterwards the
\* centre distance is minDistance and the midpoint of the centres is where
\* it was.
C21_Depenetration ==
  (passes >= 1 /\ Overlapping(PairIn) /\ RLe(NormalVelocity(PairIn, PairIn), I(0)))
  => LET half == RDiv(RSub(SumRadii(PairIn), CentreDist(PairIn)), I(2))
     IN  /\ balls[1].x = RSub(PairIn[1].x, RMul(half, NormalX(PairIn)))
         /\ balls[1].y = RSub(PairIn[1].y, RMul(half, NormalY(PairIn)))
         /\ balls[2].x = RAdd(PairIn[2].x, RMul(half, NormalX(PairIn)))
         /\ balls[2].y = RAdd(PairIn[2].y, RMul(half, NormalY(PairIn)))
         /\ CentreDist(balls) = SumRadii(PairIn)
         /\ RAdd(balls[1].x, balls[2].x) = RAdd(PairIn[1].x, PairIn[2].x)
         /\ RAdd(balls[1].y, balls[2].y) = RAdd(PairIn[1].y, PairIn[2].y)

\* An oblique pair of unequal masses and unequal radii was pushed apart
C21_Witness ==
  /\ passes = 1
  /\ path = "resolved"
  /\ CentreDx(PairIn) = I(-12)
  /\ CentreDy(PairIn) = I(16)
  /\ PairIn[1].mass = I(3)
  /\ PairIn[2].mass = I(1)
  /\ PairIn[2].radius = I(20)
  /\ CentreDist(balls) = I(30)
  /\ balls[1].x = I(103)
  /\ balls[1].y = I(96)

\* C27: for an overlapping pair with vn = 0 exactly the resolver leaves
\* both velocities as they were and moves the centres apart to the distance
\* minDistance.
C27_GrazingSeparated ==
  (passes >= 1 /\ Overlapping(PairIn) /\ NormalVelocity(PairIn, PairIn) = I(0))
  => /\ \A i \in 1..2 : balls[i].vx = PairIn[i].vx /\ balls[i].vy = PairIn[i].vy
     /\ CentreDist(balls) = SumRadii(PairIn)
     /\ balls[1].x # PairIn[1].x \/ balls[1].y # PairIn[1].y

\* Two overlapping bodies that move along the tangent only
C27_Witness ==
  /\ passes = 1
  /\ path = "resolved"
  /\ CentreDx(PairIn) = I(0)
  /\ CentreDy(PairIn) = I(15)
  /\ PairIn[1].vx = I(1)
  /\ PairIn[2].vx = I(-1)
  /\ PairIn[1].vy = PairIn[2].vy
  /\ balls[1].vx = I(1)
  /\ balls[2].vx = I(-1)
  /\ RSub(balls[2].y, balls[1].y) = I(20)

-----------------------------------------------------------------------------
(* Spec: the page.  main.js initialize() has run; the browser's event loop *)
(* then runs one callback at a time: the frame callback update(), the      *)
(* spawn button's handleSpawnBall() and the clear button's listener.       *)
(* update() is followed call by call; pc names the last call it completed. *)

\* Store size and number of frames a behaviour may reach
MaxBalls == 2

MaxFrames == 2

\* Values Math.random() may return
RandomX == {R(1, 2)}

RandomY == {R(1, 2)}

RandomV == {I(0), R(3, 4)}

\* Values of the sliders (environment.js getters)
MassValues == {I(1), I(2)}

RadiusValues == {R(1, 5)}

GravityValues == {I(0), R(98, 10)}

FrictionValues == {R(1, 2)}

\* The drag slider is held at 0 in this specification
DragValues == {I(0)}

\* Timestamp of the first frame and gaps between frames, in ms
FirstFrameMs == 16

FrameGapMs == {500}

\* The canvas sizes initializeCanvas may find
CanvasSizes == {[width |-> I(200), height |-> I(100)]}

\* main.js handleSpawnBall, lines 67-80
handleSpawnBall(bs, cv, mass, radiusM, rndX, rndY, rndV) ==
  LET config == [x |-> RAdd(RDiv(cv.width, I(2)), RMul(RSub(rndX, R(1, 2)), I(100))),
                 y |-> RAdd(RDiv(cv.height, I(10)), RMul(RSub(rndY, R(1, 2)), I(50))),
                 radiusM |-> radiusM, mass |-> mass]
  IN  spawnBall(bs, config, rndV)

\* Mutant of CallAfter: the two collision passes in the other order
CallAfterSwapped(p) ==
  CASE p = "idle" -> "updatePhysics"
    [] p = "updatePhysics" -> "handleWallCollisions"
    [] p = "handleWallCollisions" -> "handleBallCollisions"
    [] p = "handleBallCollisions" -> "render"
    [] OTHER -> "none"

\* main.js update lines 57-63: the call that follows call p in update()
CallAfter(p) ==
  CASE p = "idle" -> "updatePhysics"
    [] p = "updatePhysics" -> "handleBallCollisions"
    [] p = "handleBallCollisions" -> "handleWallCollisions"
    [] p = "handleWallCollisions" -> "render"
    [] OTHER -> "none"

\* Mutant of TaskCanStart: a callback may start while update() is running
TaskCanStartAnytime == TRUE

\* The event loop takes the next callback only when none is running:
\* update() and the click listeners are synchronous functions
TaskCanStart == pc = "idle"

\* main.js update lines 48-50
DeltaTime(currentTime) ==
  R(currentTime - (IF lastTime = 0 THEN currentTime ELSE lastTime), 1000)

Init ==
  /\ pc = "idle"
  /\ lastTime = 0
  /\ physics = NoPhysics
  /\ canvas \in CanvasSizes
  /\ rafPending = 1
  /\ frame = 0
  /\ calls = << >>
  /\ rendered = << >>
  /\ controls = NoControls
  /\ loop = NoLoop
  /\ \E m \in MassValues, r \in RadiusValues,
        rx \in RandomX, ry \in RandomY, rv \in RandomV :
        balls = handleSpawnBall(<< >>, canvas, m, r, rx, ry, rv)
  /\ pre = << >>
  /\ passes = 0
  /\ path = "none"

HarnessUnchanged == UNCHANGED <<pre, passes, path, controls, loop>>

\* The frame callback starts: update lines 47-57, up to updatePhysics
FrameIntegrate ==
  /\ TaskCanStart
  /\ rafPending > 0
  /\ frame < MaxFrames
  /\ CallAfter(pc) = "updatePhysics"
  /\ \E currentTime \in (IF lastTime = 0 THEN {FirstFrameMs}
                          ELSE {lastTime + gap : gap \in FrameGapMs}),
        g \in GravityValues, f \in FrictionValues, d \in DragValues :
        /\ physics' = createPhysicsState(g, f, d, DeltaTime(currentTime))
        /\ lastTime' = currentTime
        /\ balls' = updatePhysics(balls, DeltaTime(currentTime), physics')
  /\ rafPending' = rafPending - 1
  /\ pc' = "updatePhysics"
  /\ calls' = << "updatePhysics" >>
  /\ UNCHANGED <<canvas, frame, rendered>>
  /\ HarnessUnchanged

\* update line 58
FrameBallCollisions ==
  /\ pc # "idle"
  /\ CallAfter(pc) = "handleBallCollisions"
  /\ balls' = handleBallCollisions(balls)
  /\ pc' = "handleBallCollisions"
  /\ calls' = Append(calls, "handleBallCollisions")
  /\ UNCHANGED <<lastTime, physics, canvas, rafPending, frame, rendered>>
  /\ HarnessUnchanged

\* update lines 59-60
FrameWallCollisions ==
  /\ pc # "idle"
  /\ CallAfter(pc) = "handleWallCollisions"
  /\ balls' = handleWallCollisions(getBalls(balls), physics, canvas)
  /\ pc' = "handleWallCollisions"
  /\ calls' = Append(calls, "handleWallCollisions")
  /\ UNCHANGED <<lastTime, physics, canvas, rafPending, frame, rendered>>
  /\ HarnessUnchanged

\* update lines 61-63: render, then requestAnimationFrame(update)
FrameRender ==
  /\ pc # "idle"
  /\ CallAfter(pc) = "render"
  /\ rendered' = balls
  /\ rafPending' = rafPending + 1
  /\ frame' = frame + 1
  /\ pc' = "idle"
  /\ calls' = Append(calls, "render")
  /\ UNCHANGED <<balls, lastTime, physics, canvas>>
  /\ HarnessUnchanged

\* A click on the spawn button: main.js line 86
SpawnClick ==
  /\ TaskCanStart
  /\ Len(balls) < MaxBalls
  /\ \E m \in MassValues, r \in RadiusValues,
        rx \in RandomX, ry \in RandomY, rv \in RandomV :
        balls' = handleSpawnBall(balls, canvas, m, r, rx, ry, rv)
  /\ UNCHANGED <<pc, lastTime, physics, canvas, rafPending, frame, calls, rendered>>
  /\ HarnessUnchanged

\* A click on the clear button: environment.js lines 288-291
ClearClick ==
  /\ TaskCanStart
  /\ balls' = clearAllBalls(balls)
  /\ UNCHANGED <<pc, lastTime, physics, canvas, rafPending, frame, calls, rendered>>
  /\ HarnessUnchanged

Next ==
  \/ FrameIntegrate
  \/ FrameBallCollisions
  \/ FrameWallCollisions
  \/ FrameRender
  \/ SpawnClick
  \/ ClearClick

Spec == Init /\ [][Next]_vars

-----------------------------------------------------------------------------
(* Properties of the driver, checked under Spec *)

FrameCalls ==
  << "updatePhysics", "handleBallCollisions", "handleWallCollisions", "render" >>

\* C1: every frame makes the calls updatePhysics, handleBallCollisions,
\* handleWallCollisions, render in this order, each once, and the calls of
\* the next frame begin only after render of the running frame has returned.
C1_FrameOrder ==
  [][ \/ calls' = calls
      \/ /\ Len(calls) < Len(FrameCalls)
         /\ calls = SubSeq(FrameCalls, 1, Len(calls))
         /\ calls' = SubSeq(FrameCalls, 1, Len(calls) + 1)
      \/ /\ calls = FrameCalls
         /\ calls' = SubSeq(FrameCalls, 1, 1) ]_vars

C1_Witness ==
  /\ frame = 2
  /\ lastTime > FirstFrameMs
  /\ pc = "idle"
  /\ calls = FrameCalls
  /\ rafPending = 1
  /\ Len(rendered) >= 1

\* C2: a spawn or a clear (a change of the store's length) never takes
\* effect while a frame is between its first call and the return of render.
C2_StepAtomic ==
  [][ Len(balls') # Len(balls) => (pc = "idle" /\ pc' = "idle") ]_vars

C2_Witness ==
  /\ frame >= 1
  /\ pc = "handleWallCollisions"
  /\ Len(rendered) = 1
  /\ Len(balls) = 2

\* The positions handleSpawnBall may request on the current canvas
SpawnPositions ==
  { <<RAdd(RDiv(canvas.width, I(2)), RMul(RSub(rx, R(1, 2)), I(100))),
      RAdd(RDiv(canvas.height, I(10)), RMul(RSub(ry, R(1, 2)), I(50)))>> :
      rx \in RandomX, ry \in RandomY }

\* The same body before and after a step: the fields no operation assigns
SameBody(b, c) ==
  /\ b.color = c.color
  /\ b.mass = c.mass
  /\ b.radiusM = c.radiusM
  /\ b.radius = c.radius

\* A step of update() that works on the store
PhysicsPhase == FrameIntegrate \/ FrameBallCollisions \/ FrameWallCollisions

\* C11: a spawn appends exactly one body at the end of the store, with the
\* requested position, mass and radius in metres, vy = 0 and -1 <= vx < 1;
\* the length grows by exactly 1 and every body already in the store keeps
\* its index and all of its fields.
C11_SpawnAppends ==
  [][ SpawnClick =>
        /\ getBallCount(balls') = getBallCount(balls) + 1
        /\ SubSeq(balls', 1, Len(balls)) = balls
        /\ LET b == balls'[Len(balls')]
           IN  /\ <<b.x, b.y>> \in SpawnPositions
               /\ b.mass \in MassValues
               /\ b.radiusM \in RadiusValues
               /\ b.vy = I(0)
               /\ RGe(b.vx, I(-1))
               /\ RLt(b.vx, I(1)) ]_vars

\* A ball spawned into a store whose first ball has already been moved
C11_Witness ==
  /\ pc = "idle"
  /\ frame >= 1
  /\ Len(balls) = 2
  /\ balls[1].vy # I(0)
  /\ balls[2].vy = I(0)
  /\ balls[2].vx = I(-1)
  /\ <<balls[2].x, balls[2].y>> \in SpawnPositions

\* C12: a clear leaves the store empty (getBalls yields the empty sequence
\* and the count is 0) whatever it held; the phases of a frame on the empty
\* store leave it empty, and a spawn into it yields a store of exactly one
\* body.
C12_ClearEmpties ==
  [][ /\ ClearClick => (getBalls(balls') = << >> /\ getBallCount(balls') = 0)
      /\ (balls = << >> /\ PhysicsPhase) => balls' = << >>
      /\ (balls = << >> /\ SpawnClick) => getBallCount(balls') = 1 ]_vars

\* The store was cleared after a frame that drew a ball, and the next frame
\* has run its three phases on the empty store
C12_Witness ==
  /\ rendered # << >>
  /\ pc = "handleWallCollisions"
  /\ getBalls(balls) = << >>

\* C13: in every reachable state every body of the store has
\* radius = radiusM * METER.
C13_RadiusRelation ==
  \A i \in 1..Len(balls) : REq(balls[i].radius, RMul(balls[i].radiusM, I(METER)))

\* Two bodies that have both been through complete frames
C13_Witness ==
  /\ frame = 2
  /\ pc = "idle"
  /\ Len(balls) = 2
  /\ balls[1].vy # I(0)
  /\ balls[2].vy # I(0)

\* C16: in every step either the store is emptied, or it does not shrink
\* and every body it held is still at its index.
C16_StoreIdentityStable ==
  [][ \/ balls' = << >>
      \/ /\ Len(balls') >= Len(balls)
         /\ \A i \in 1..Len(balls) : SameBody(balls[i], balls'[i]) ]_vars

\* A store that was cleared and refilled: its bodies carry the colours of
\* their indexes, after a frame on the refilled store
C16_Witness ==
  /\ frame = 2
  /\ Len(rendered) = 2
  /\ Len(balls) = 2
  /\ balls[1].color = generateBallColor(0)
  /\ balls[2].color = generateBallColor(1)
  /\ balls[1].mass # balls[2].mass

-----------------------------------------------------------------------------
(* SpecWall: handleWallCollisions applied to a store of one ball *)

WallCanvas == [width |-> I(200), height |-> I(100)]

\* A canvas narrower than the ball's diameter
WallNarrowCanvas == [width |-> I(15), height |-> I(100)]

WallCanvases == {WallCanvas, WallNarrowCanvas}

WallY == {I(-500), I(50), I(90), I(93), I(120)}

WallVy == {I(0), R(1, 2), R(7, 10), R(5, 7), I(1), R(-1, 2), I(-1), I(3)}

WallX == {I(5), I(100), I(195)}

WallVx == {I(-1), I(0), R(49, 100), I(2)}

WallMass == {I(1), I(2)}

WallFriction == {I(0), R(1, 2)}

InitWall ==
  /\ DriverParked
  /\ canvas \in WallCanvases
  /\ \E f \in WallFriction :
        physics = createPhysicsState(R(98, 10), f, I(0), R(1, 10))
  /\ \E px \in WallX, py \in WallY, vx \in WallVx, vy \in WallVy,
        mass \in WallMass :
        balls = << PairBall(px, py, vx, vy, R(1, 10), mass) >>
  /\ pre = << >>
  /\ passes = 0
  /\ path = "none"

\* One call of handleWallCollisions
WallPass ==
  /\ passes < MaxPasses
  /\ balls' = handleWallCollisions(getBalls(balls), physics, canvas)
  /\ pre' = Append(pre, balls)
  /\ passes' = passes + 1
  /\ UNCHANGED <<physics, canvas, path>>
  /\ DriverUnchanged

NextWall == WallPass

SpecWall == InitWall /\ [][NextWall]_vars

\* The floor branch fired in the first pass and left |vy| < 0.5 after the
\* restitution factor
FirstPassDeadband ==
  /\ passes >= 1
  /\ RGt(RAdd(pre[1][1].y, pre[1][1].radius), canvas.height)
  /\ RLt(RAbs(RMul(pre[1][1].vy, RESTITUTION_WALL_FLOOR)), R(1, 2))

\* C10: when one boundary pass puts a ball on the floor with |vy| < 0.5
\* after restitution, then vy = 0 and y = height - radius, and they are
\* still so after a second boundary pass on that state.
C10_DeadbandIdempotent ==
  FirstPassDeadband
  => /\ balls[1].vy = I(0)
     /\ balls[1].y = RSub(canvas.height, balls[1].radius)

C10_Witness ==
  /\ FirstPassDeadband
  /\ passes = 2
  /\ pre[1][1].vy # I(0)
  /\ balls[1].vy = I(0)
  /\ balls[1].y = I(90)
  /\ balls = pre[2]

\* The ball handed to the latest boundary pass
WallIn == pre[passes][1]

\* The floor test of the latest pass, on the ball as it was handed in
PastFloor(b) == RGt(RAdd(b.y, b.radius), canvas.height)

\* No side wall is crossed by the ball
InsideWalls(b) ==
  /\ RLe(RAdd(b.x, b.radius), canvas.width)
  /\ RGe(RSub(b.x, b.radius), I(0))

\* C22: a body with y + radius > height leaves the boundary pass with
\* y = height - radius and vy = -0.7 times its old vy, or 0 when that product
\* is smaller than 0.5 in magnitude; a body with y + radius <= height (the
\* test is strict) keeps y and vy, and is not changed at all when it is
\* inside the side walls too.
C22_FloorBranch ==
  passes >= 1 =>
    LET bounced == RMul(WallIn.vy, R(-7, 10))
    IN  IF PastFloor(WallIn)
        THEN /\ balls[1].y = RSub(canvas.height, WallIn.radius)
             /\ balls[1].vy = IF RLt(RAbs(bounced), R(1, 2)) THEN I(0) ELSE bounced
        ELSE /\ balls[1].y = WallIn.y
             /\ balls[1].vy = WallIn.vy
             /\ InsideWalls(WallIn) => balls[1] = WallIn

\* A ball 3 px past the floor bounced with vy 3 -> -2.1 and was put on the
\* floor; the second pass found y + radius = height and changed nothing
C22_Witness ==
  /\ passes = 2
  /\ pre[1][1].y = I(93)
  /\ pre[1][1].vy = I(3)
  /\ pre[2][1].y = I(90)
  /\ pre[2][1].vy = R(-21, 10)
  /\ RAdd(pre[2][1].y, pre[2][1].radius) = canvas.height
  /\ balls = pre[2]

\* C23: in the floor branch the horizontal velocity becomes 0 when
\* |vx| <= friction * gravity * dt, and otherwise keeps its sign and loses
\* exactly friction * gravity * dt of its magnitude; it never changes sign.
\* (Seen on balls inside the side walls, whose vx no wall touches.)
C23_FrictionNoOvershoot ==
  (passes >= 1 /\ PastFloor(WallIn) /\ InsideWalls(WallIn)) =>
    LET loss == RMul(RMul(physics.friction, physics.gravity), physics.deltaTime)
    IN  /\ RLe(RAbs(WallIn.vx), loss) => balls[1].vx = I(0)
        /\ RGt(RAbs(WallIn.vx), loss) =>
              /\ RSign(balls[1].vx) = RSign(WallIn.vx)
              /\ RAbs(balls[1].vx) = RSub(RAbs(WallIn.vx), loss)
        /\ RGe(RMul(balls[1].vx, WallIn.vx), I(0))

\* A ball of mass 2 moving left at 1 lost 0.49 on the floor
C23_Witness ==
  /\ passes = 1
  /\ PastFloor(WallIn)
  /\ InsideWalls(WallIn)
  /\ physics.friction = R(1, 2)
  /\ WallIn.mass = I(2)
  /\ WallIn.vx = I(-1)
  /\ balls[1].vx = R(-51, 100)

\* C25: a body with y + radius <= height keeps y and vy in the boundary
\* pass however far above the top edge it is; a body above the top edge
\* (y - radius < 0) is still above it afterwards.
C25_NoCeiling ==
  (passes >= 1 /\ ~PastFloor(WallIn)) =>
    /\ balls[1].y = WallIn.y
    /\ balls[1].vy = WallIn.vy
    /\ RLt(RSub(WallIn.y, WallIn.radius), I(0))
          => RLt(RSub(balls[1].y, balls[1].radius), I(0))

\* A ball 500 px above the top edge, still rising, went through two passes
C25_Witness ==
  /\ passes = 2
  /\ pre[1][1].y = I(-500)
  /\ pre[1][1].vy = I(-1)
  /\ balls[1].y = I(-500)
  /\ balls[1].vy = I(-1)

-----------------------------------------------------------------------------
(* SpecEdges: the boundary resolution of one ball as each of the two files *)
(* that hold it does it: handleWallCollisions of environment.js, and the   *)
(* forEach that ends update in the single-file object.js                   *)

\* object.js update lines 189-217 for one ball: the floor branch (191-208,
\* the statements of environment.js 135-160 without the unused constant),
\* then the right wall (211-213), else the left wall (214-217)
LegacyWallBall(ball, canvasBounds, physicsState) ==
  LET b == FloorCollision(ball, canvasBounds, physicsState)
  IN  IF RGt(RAdd(b.x, b.radius), canvasBounds.width)
      THEN [b EXCEPT !.x = RSub(canvasBounds.width, b.radius),
                     !.vx = RMul(b.vx, RNeg(RESTITUTION_WALL_FLOOR))]
      ELSE IF RLt(RSub(b.x, b.radius), I(0))
           THEN [b EXCEPT !.x = b.radius,
                          !.vx = RMul(b.vx, RNeg(RESTITUTION_WALL_FLOOR))]
           ELSE b

\* One call of handleWallCollisions of environment.js
EdgesModular ==
  /\ passes < MaxPasses
  /\ balls' = handleWallCollisions(getBalls(balls), physics, canvas)
  /\ pre' = Append(pre, balls)
  /\ passes' = passes + 1
  /\ path' = "environment.js"
  /\ UNCHANGED <<physics, canvas>>
  /\ DriverUnchanged

\* One run of the forEach of object.js
EdgesLegacy ==
  /\ passes < MaxPasses
  /\ balls' = [i \in 1..Len(balls) |-> LegacyWallBall(balls[i], canvas, physics)]
  /\ pre' = Append(pre, balls)
  /\ passes' = passes + 1
  /\ path' = "object.js"
  /\ UNCHANGED <<physics, canvas>>
  /\ DriverUnchanged

NextEdges == EdgesModular \/ EdgesLegacy

SpecEdges == InitWall /\ [][NextEdges]_vars

\* vx as the floor branch leaves it: friction applied if the floor was crossed
VxAfterFloor(b) ==
  LET loss == RMul(RMul(physics.friction, physics.gravity), physics.deltaTime)
  IN  IF ~PastFloor(b) THEN b.vx
      ELSE IF RGt(RAbs(b.vx), loss) THEN RSub(b.vx, RMul(RSign(b.vx), loss))
      ELSE I(0)

RightFires(b) == RGt(RAdd(b.x, b.radius), canvas.width)

XAfterRight(b) == IF RightFires(b) THEN RSub(canvas.width, b.radius) ELSE b.x

\* The left-wall test on the x the right-wall check left
LeftFiresAfter(b) == RLt(RSub(XAfterRight(b), b.radius), I(0))

\* b is what floor, right wall and left wall make of p when each is tested
\* on the state the one before left and the left wall is tested iff
\* leftTested
EdgesOutcome(p, b, leftTested) ==
  LET v1 == VxAfterFloor(p)
      v2 == IF RightFires(p) THEN RMul(v1, R(-7, 10)) ELSE v1
      left == leftTested /\ LeftFiresAfter(p)
  IN  /\ b.y = IF PastFloor(p) THEN RSub(canvas.height, p.radius) ELSE p.y
      /\ b.x = IF left THEN p.radius ELSE XAfterRight(p)
      /\ b.vx = IF left THEN RMul(v2, R(-7, 10)) ELSE v2

-----------------------------------------------------------------------------
(* SpecStepB: whole steps (update lines 57-60) of a store of one ball that *)
(* starts at rest above the floor                                          *)

StepCanvas == [width |-> I(4000), height |-> I(600)]

\* Distance of the ball's lowest point from the floor, in pixels
StepGap == {I(0), I(1), I(5), I(10), I(100)}

StepDt == {R(1, 10), R(1, 100)}

StepGravity == {I(0), R(98, 10)}

StepFriction == {I(0), R(1, 2)}

StepMass == {I(1), I(2)}

\* A ball of render radius 10 at rest, its lowest point gap above the floor
RestingBall(gap, vx, mass) ==
  PairBall(I(1000), RSub(RSub(StepCanvas.height, I(10)), gap), vx, I(0),
           R(1, 10), mass)

InitStepB ==
  /\ DriverParked
  /\ canvas = StepCanvas
  /\ \E g \in StepGravity, f \in StepFriction, dt \in StepDt :
        physics = createPhysicsState(g, f, I(0), dt)
  /\ \E gap \in StepGap, m \in StepMass : balls = << RestingBall(gap, I(0), m) >>
  /\ pre = << balls >>
  /\ passes = 0
  /\ path = "none"

\* One step: updatePhysics, handleBallCollisions, handleWallCollisions
StepOnce ==
  /\ passes < MaxPasses
  /\ balls' = step(balls, physics, canvas)
  /\ passes' = passes + 1
  /\ UNCHANGED <<physics, canvas, pre, path>>
  /\ DriverUnchanged

NextStepB == StepOnce

SpecStepB == InitStepB /\ [][NextStepB]_vars

\* Scenario B: mass 1, gravity 9.8, dt = 0.1, no drag, no friction
ScenarioBPhysics == createPhysicsState(R(98, 10), I(0), I(0), R(1, 10))

\* The floor branch did not fire in the step: the ball is where the
\* integrator put it, 9.8 pixels below its start
NotReachedFloor ==
  /\ balls[1].y = RAdd(pre[1][1].y, R(98, 10))
  /\ RLe(RAdd(balls[1].y, balls[1].radius), canvas.height)

\* C8 as stated: scenario B with the ball 1 (render) unit above the floor:
\* after one step vy = 0.98 and the floor branch has not fired.
C8_Original ==
  (passes = 1 /\ physics = ScenarioBPhysics
     /\ pre[1] = << RestingBall(I(1), I(0), I(1)) >>)
  => (balls[1].vy = R(98, 100) /\ NotReachedFloor)

\* C8 as amended: scenario B with the ball 1 physical unit (METER = 100
\* pixels) above the floor: after one step vy = 0.98 and the floor branch
\* has not fired.
C8_ScenarioB ==
  (passes = 1 /\ physics = ScenarioBPhysics
     /\ pre[1] = << RestingBall(I(METER), I(0), I(1)) >>)
  => (balls[1].vy = R(98, 100) /\ NotReachedFloor)

C8_Witness ==
  /\ passes = 1
  /\ physics = ScenarioBPhysics
  /\ pre[1] = << RestingBall(I(METER), I(0), I(1)) >>
  /\ balls[1].vy = R(98, 100)
  /\ balls[1].y = R(4998, 10)

-----------------------------------------------------------------------------
(* SpecFloorC: repeated whole steps of a store of one ball that rests on   *)
(* the floor (y + radius = height, vy = 0), far from the side walls, with  *)
(* the frame time fixed                                                    *)

\* Number of steps a behaviour may take
MaxSteps == 1030

FloorDt == {R(1, 1000), R(1, 100), R(1, 50), R(1, 10)}

FloorVx == {I(-5), I(0), I(5)}

InitFloorC ==
  /\ DriverParked
  /\ canvas = StepCanvas
  /\ \E dt \in FloorDt :
        physics = createPhysicsState(R(98, 10), R(1, 2), I(0), dt)
  /\ \E vx \in FloorVx : balls = << RestingBall(I(0), vx, I(1)) >>
  /\ pre = << balls >>
  /\ passes = 0
  /\ path = "none"

\* One step: updatePhysics, handleBallCollisions, handleWallCollisions
StepFloor ==
  /\ passes < MaxSteps
  /\ balls' = step(balls, physics, canvas)
  /\ passes' = passes + 1
  /\ UNCHANGED <<physics, canvas, pre, path>>
  /\ DriverUnchanged

NextFloorC == StepFloor

SpecFloorC == InitFloorC /\ [][NextFloorC]_vars

\* Scenario C: the ball starts on the floor with vx = 5 (friction 0.5,
\* gravity 9.8 and no drag in every behaviour of SpecFloorC)
ScenarioC == pre[1] = << RestingBall(I(0), I(5), I(1)) >>

\* The least whole number k with k * b >= a, for a >= 0 and b > 0
CeilDiv(a, b) ==
  LET q == RDiv(a, b)
  IN  (q[1] + q[2] - 1) \div q[2]

\* The number of steps after which friction, taking friction * gravity *
\* deltaTime off the speed in each step, has used up the initial speed
StepsNeeded ==
  CeilDiv(RAbs(pre[1][1].vx),
          RMul(RMul(physics.friction, physics.gravity), physics.deltaTime))

\* On the floor the integrator's gravity gain exceeds its 0.01 deadband
GravityBeatsDeadband ==
  RGt(RMul(physics.gravity, physics.deltaTime), R(1, 100))

\* C9 as stated: in scenario C with any fixed dt > 0, vx is never negative
\* and is exactly 0 once friction has had the steps it needs.
C9_Original ==
  (ScenarioC /\ RGt(physics.deltaTime, I(0)))
  => /\ RGe(balls[1].vx, I(0))
     /\ (passes >= StepsNeeded => balls[1].vx = I(0))

\* C9 as amended: in scenario C with a fixed dt such that gravity * dt
\* exceeds 0.01, vx is never negative, is exactly 0 once friction has had
\* the steps it needs (so repeated steps bring it to 0), and stays 0 once
\* it is 0.
C9_ScenarioC ==
  /\ []((ScenarioC /\ GravityBeatsDeadband)
          => /\ RGe(balls[1].vx, I(0))
             /\ (passes >= StepsNeeded => balls[1].vx = I(0)))
  /\ [][(ScenarioC /\ GravityBeatsDeadband /\ balls[1].vx = I(0))
          => balls'[1].vx = I(0)]_vars

C9_Witness ==
  /\ ScenarioC
  /\ GravityBeatsDeadband
  /\ physics.deltaTime = R(1, 10)
  /\ passes = StepsNeeded + 1
  /\ balls[1].vx = I(0)
  /\ balls[1].y = I(590)
  /\ RGt(balls[1].x, I(1200))

-----------------------------------------------------------------------------
(* SpecHover: whole steps (update lines 57-60) of a store of two balls far *)
(* apart, both at rest vertically: the first on or above the floor, or     *)
(* above the top edge, the second on the floor                             *)

\* Number of steps a behaviour may take
MaxHover == 3

\* Distance of the first ball's lowest point from the floor, in pixels
HoverGap == {I(0), I(50), I(700)}

HoverGravity == {I(1), I(10)}

HoverDt == {R(1, 1000), R(1, 100), R(1, 10)}

\* Horizontal velocity and drag coefficient of a behaviour. Drag is taken
\* with a body that has no horizontal speed and, in InitHover, with
\* gravity * dt below the deadband only: the velocities of a body that falls
\* under drag have denominators that outgrow the integers of the checker
HoverMotion == {<<I(0), I(0)>>, <<I(0), R(40, 77)>>, <<I(5), I(0)>>}

InitHover ==
  /\ DriverParked
  /\ canvas = StepCanvas
  /\ \E g \in HoverGravity, dt \in HoverDt, gap \in HoverGap, mo \in HoverMotion :
        /\ mo[2] = I(0) \/ RLt(RMul(g, dt), R(1, 100))
        /\ physics = createPhysicsState(g, R(1, 2), mo[2], dt)
        /\ balls = << RestingBall(gap, mo[1], I(1)),
                      PairBall(I(800), I(580), I(0), I(0), R(1, 5), I(2)) >>
  /\ pre = << balls >>
  /\ passes = 0
  /\ path = "none"

\* One step: updatePhysics, handleBallCollisions, handleWallCollisions
StepHover ==
  /\ passes < MaxHover
  /\ balls' = step(balls, physics, canvas)
  /\ passes' = passes + 1
  /\ UNCHANGED <<physics, canvas, pre, path>>
  /\ DriverUnchanged

NextHover == StepHover

SpecHover == InitHover /\ [][NextHover]_vars

\* gravity * dt is positive and at most the integrator's deadband
GravityInDeadband ==
  /\ RGt(physics.gravity, I(0))
  /\ RLe(RMul(physics.gravity, physics.deltaTime), R(1, 100))

\* C28: when gravity * dt <= 0.01, a body that is at rest vertically, has
\* not crossed the floor and overlaps no other body has vy = 0 and the y
\* it started with after every step.
C28_DeadbandHover ==
  GravityInDeadband =>
    \A i \in 1..Len(balls) :
      /\ balls[i].vy = I(0)
      /\ balls[i].y = pre[1][i].y

\* After three steps with gravity 10 and dt = 0.001 (gravity * dt = 0.01)
\* the first ball is still 50 px above the floor, while it has moved
\* sideways
C28_Witness ==
  /\ passes = MaxHover
  /\ physics.gravity = I(10)
  /\ physics.deltaTime = R(1, 1000)
  /\ pre[1][1].y = I(540)
  /\ balls[1].y = I(540)
  /\ balls[1].vy = I(0)
  /\ RGt(balls[1].x, pre[1][1].x)

-----------------------------------------------------------------------------
(* SpecStack: whole steps (update lines 57-60) of a store of two balls of  *)
(* radius 10 near the floor: the first with its lowest point on the floor, *)
(* as the floor branch leaves a ball, the second above it, overlapping it  *)
(* or about to                                                             *)

StackCanvases == {[width |-> I(200), height |-> I(600)],
                  [width |-> I(15), height |-> I(600)]}

\* x of the first ball: at the left wall, in the middle, at the right wall
\* of the wider canvas
StackX == {I(10), I(100), I(190)}

\* Vertical velocities of the first and the second ball: equal (rising, at
\* rest), approaching (the first rising from the floor, the second falling
\* on it) and separating (the first falling through the floor). The pairs are those whose velocities keep
\* denominators the checker's integers can square over the steps taken
StackVy == {<<I(-1), I(-1)>>, <<I(0), I(0)>>, <<I(-3), I(-3)>>,
            <<I(-3), I(1)>>, <<I(-1), I(1)>>, <<I(1), I(-1)>>}

\* Centre of the second ball minus centre of the first, in pixels: above
\* and overlapping, above and clear, and beside it on the floor
StackOffset == {<<I(0), I(-15)>>, <<I(0), I(-21)>>, <<I(15), I(0)>>,
                <<I(-15), I(0)>>}

StackMass == {I(1), I(3)}

StackDt == {R(1, 100), R(1, 10)}

StackGravity == {I(0), I(10)}

InitStack ==
  /\ DriverParked
  /\ canvas \in StackCanvases
  /\ \E g \in StackGravity, dt \in StackDt :
        physics = createPhysicsState(g, R(1, 2), I(0), dt)
  /\ \E px \in StackX, vy \in StackVy, off \in StackOffset, mass \in StackMass :
        balls = << PairBall(px, I(590), I(0), vy[1], R(1, 10), mass),
                   PairBall(RAdd(px, off[1]), RAdd(I(590), off[2]), I(0), vy[2],
                            R(1, 10), I(1)) >>
  /\ pre = << >>
  /\ passes = 0
  /\ path = "none"

\* The store as update line 59 hands it to handleWallCollisions
BeforeWalls(bs, physicsState) ==
  getBalls(handleBallCollisions(
    updatePhysics(bs, physicsState.deltaTime, physicsState)))

\* One step; pre records the store as the boundary pass received it
StepStack ==
  /\ passes < MaxPasses
  /\ balls' = step(balls, physics, canvas)
  /\ pre' = Append(pre, BeforeWalls(balls, physics))
  /\ passes' = passes + 1
  /\ UNCHANGED <<physics, canvas, path>>
  /\ DriverUnchanged

NextStack == StepStack

SpecStack == InitStack /\ [][NextStack]_vars

\* C26: at the end of every step every body has y + radius <= height and
\* x - radius >= 0, and x + radius <= width when the canvas is at least as
\* wide as the body.
C26_Containment ==
  passes >= 1 =>
    \A i \in 1..Len(balls) :
      /\ RLe(RAdd(balls[i].y, balls[i].radius), canvas.height)
      /\ RGe(RSub(balls[i].x, balls[i].radius), I(0))
      /\ RLe(RMul(I(2), balls[i].radius), canvas.width)
            => RLe(RAdd(balls[i].x, balls[i].radius), canvas.width)

\* The body-body pass pushed the first ball through the left wall
\* (x = 7.5) and, in the next step, the wall pushed it back into the second
\* ball and the body-body pass out again; both steps ended with it at x = 10
C26_Witness ==
  /\ passes = 2
  /\ canvas.width = I(200)
  /\ pre[1][1].x = R(15, 2)
  /\ RLt(RSub(pre[2][1].x, pre[2][1].radius), I(0))
  /\ balls[1].x = I(10)
  /\ balls[1].y = I(590)

\* C29: whenever the floor branch of the boundary pass fires for a body,
\* that body's vy is zero or upward (vy <= 0) afterwards.
C29_FloorBounceUp ==
  passes >= 1 =>
    \A i \in 1..Len(balls) :
      PastFloor(pre[passes][i]) => RLe(balls[i].vy, I(0))

-----------------------------------------------------------------------------
(* SpecInt: one call of updatePhysics on a store of one ball *)

IntVx == {I(-2), R(-1, 100), I(0), R(1, 100), R(1, 50), I(1)}

IntVy == {I(-1), R(-1, 100), I(0), I(3)}

IntY == {I(50), I(300)}

IntGravity == {I(0), R(1, 10), R(98, 10)}

IntDt == {I(0), R(1, 10), I(1)}

\* Drag coefficients: 0 and 40/77 (about 0.52), for which 0.5 * Cd * rho * PI
\* is a whole number
IntDrag == {I(0), R(40, 77)}

\* The masses a caller of spawnBall may pass; the function does not check them
IntMass == {I(0), I(1), I(2)}

IntRadiusM == {R(1, 10), R(1, 5)}

InitInt ==
  /\ DriverParked
  /\ canvas = [width |-> I(0), height |-> I(0)]
  /\ \E g \in IntGravity, d \in IntDrag, dt \in IntDt :
        physics = createPhysicsState(g, I(0), d, dt)
  /\ \E vx \in IntVx, vy \in IntVy, py \in IntY, m \in IntMass, r \in IntRadiusM :
        balls = << PairBall(I(100), py, vx, vy, r, m) >>
  /\ pre = << >>
  /\ passes = 0
  /\ path = "none"

\* The call updatePhysics(deltaTime, physics) of main.js line 57
IntegrateOnce ==
  /\ passes = 0
  /\ balls' = updatePhysics(balls, physics.deltaTime, physics)
  /\ pre' = << balls >>
  /\ passes' = 1
  /\ UNCHANGED <<physics, canvas, path>>
  /\ DriverUnchanged

NextInt == IntegrateOnce

SpecInt == InitInt /\ [][NextInt]_vars

\* The ball the call was given
IntIn == pre[1][1]

BallFinite(b) ==
  IsFinite(b.x) /\ IsFinite(b.y) /\ IsFinite(b.vx) /\ IsFinite(b.vy)

\* C14: the division by the mass in the integrator divides by at least the
\* positive floor, so that the call leaves the position and the velocity of
\* a body finite numbers, also when its mass is 0.
C14_MassFloorGuarded ==
  passes = 1 => BallFinite(balls[1])

\* The update of one axis as the reference operator states it
RefAxis(v, Cd, radiusM, mass, dt) ==
  IF RLe(RAbs(v), R(1, 100)) THEN I(0)
  ELSE LET force == RMul(RMul(RMul(RMul(RMul(R(1, 2), Cd), FLUID_DENSITY), PI),
                              RMul(radiusM, radiusM)),
                         RMul(v, v))
       IN  RSub(v, RMul(RMul(RSign(v), RDiv(force, mass)), dt))

\* The reference operator: gravity, then the two axes, then the position
RefIntegrate(b, g, Cd, dt) ==
  LET vyG == RAdd(b.vy, RMul(g, dt))
      vxN == RefAxis(b.vx, Cd, b.radiusM, b.mass, dt)
      vyN == RefAxis(vyG, Cd, b.radiusM, b.mass, dt)
  IN  [b EXCEPT !.vx = vxN, !.vy = vyN,
                !.x = RAdd(b.x, RMul(vxN, RMul(dt, I(100)))),
                !.y = RAdd(b.y, RMul(vyN, RMul(dt, I(100))))]

\* C17: the call leaves every body as the reference operator does: vy gains
\* gravity * dt; then each axis velocity, taken after that, becomes 0 when
\* its magnitude is at most 0.01 and otherwise loses
\* sign(v) * (0.5 * Cd * rho * pi * radiusM^2 * v^2 / mass) * dt; then x and
\* y advance by the new velocities times dt * 100.
C17_IntegratorReference ==
  passes = 1 =>
    balls[1] = RefIntegrate(IntIn, physics.gravity, physics.drag, physics.deltaTime)

\* Drag acted on x while gravity carried vy to the edge of the deadband
C17_Witness ==
  /\ passes = 1
  /\ physics.drag = R(40, 77)
  /\ physics.deltaTime = R(1, 10)
  /\ IntIn.mass = I(2)
  /\ IntIn.vx = I(1)
  /\ IntIn.vy = I(0)
  /\ physics.gravity = R(1, 10)
  /\ balls[1].vy = I(0)
  /\ RLt(balls[1].vx, I(1))
  /\ RGt(balls[1].x, I(100))

\* C18: the vx and x the call leaves do not depend on vy, y or gravity:
\* the call on any body that differs from the given one only in vy and y,
\* under any gravity, leaves the same vx and x.
C18_AxisIndependence ==
  passes = 1 =>
    \A vy \in IntVy, py \in IntY, g \in IntGravity :
      LET other == IntegrateBall([IntIn EXCEPT !.vy = vy, !.y = py],
                                 physics.deltaTime,
                                 [physics EXCEPT !.gravity = g])
      IN  other.vx = balls[1].vx /\ other.x = balls[1].x

\* Drag acted on both axes of a falling body
C18_Witness ==
  /\ passes = 1
  /\ physics.drag = R(40, 77)
  /\ physics.gravity = R(98, 10)
  /\ physics.deltaTime = R(1, 10)
  /\ IntIn.mass = I(1)
  /\ IntIn.vx = I(-2)
  /\ IntIn.vy = I(3)
  /\ RGt(balls[1].vx, I(-2))
  /\ RLt(balls[1].vy, R(398, 100))

-----------------------------------------------------------------------------
(* SpecLoop: handleBallCollisions followed call by call on a row of balls. *)
(* The balls lie on one horizontal line, 15 apart, each of radius 10, so   *)
(* that neighbours overlap and every distance is rational.                 *)

\* The largest store
MaxLine == 4

LineVel == {I(-1), I(1)}

LineMass == {I(1), I(3)}

LineBall(k, vx, mass) ==
  PairBall(I(100 + 15 * (k - 1)), I(100), vx, I(0), R(1, 10), mass)

\* The call has set i to the first index and, if the store has a ball
\* there, j to the first index of the inner loop
InitLoop ==
  /\ pc = "harness"
  /\ lastTime = 0
  /\ rafPending = 0
  /\ frame = 0
  /\ calls = << >>
  /\ rendered = << >>
  /\ controls = NoControls
  /\ physics = NoPhysics
  /\ canvas = [width |-> I(0), height |-> I(0)]
  /\ \E n \in 0..MaxLine :
        \E vs \in [1..n -> LineVel], ms \in [1..n -> LineMass] :
          balls = [k \in 1..n |-> LineBall(k, vs[k], ms[k])]
  /\ loop = [i |-> 1, j |-> InnerStart(1), resolved |-> << >>]
  /\ pre = << balls >>
  /\ passes = 0
  /\ path = "none"

LoopUnchanged ==
  UNCHANGED <<pc, lastTime, rafPending, frame, calls, rendered, controls,
              physics, canvas, pre>>

\* Line 99: resolveBallCollision(balls[i], balls[j]), then j++
LoopResolve ==
  /\ loop.i <= Len(balls)
  /\ loop.j <= Len(balls)
  /\ LET r == resolveBallCollision(balls[loop.i], balls[loop.j])
     IN  /\ balls' = [balls EXCEPT ![loop.i] = r.b1, ![loop.j] = r.b2]
         /\ path' = r.path
  /\ loop' = [loop EXCEPT !.j = loop.j + 1,
                          !.resolved = Append(loop.resolved, <<loop.i, loop.j>>)]
  /\ passes' = passes + 1
  /\ LoopUnchanged

\* Lines 97-98: the inner loop has ended: i++, and j = i + 1
LoopNextI ==
  /\ loop.i <= Len(balls)
  /\ loop.j > Len(balls)
  /\ loop' = [loop EXCEPT !.i = loop.i + 1, !.j = InnerStart(loop.i + 1)]
  /\ UNCHANGED <<balls, passes, path>>
  /\ LoopUnchanged

NextLoop == LoopResolve \/ LoopNextI

SpecLoop == InitLoop /\ [][NextLoop]_vars

\* The call has returned
LoopDone == loop.i > Len(balls)

\* The unordered pairs of 1..n, written <<i, j>> with i < j
UnorderedPairs(n) == { p \in (1..n) \X (1..n) : p[1] < p[2] }

PairBefore(p, q) == p[1] < q[1] \/ (p[1] = q[1] /\ p[2] < q[2])

\* The unordered pairs of 1..n in increasing (i, j) order
RefPairs(n) ==
  [k \in 1..Cardinality(UnorderedPairs(n)) |->
     CHOOSE p \in UnorderedPairs(n) :
       Cardinality({q \in UnorderedPairs(n) : PairBefore(q, p)}) = k - 1]

\* The pairs ps[k], ps[k+1], ... resolved one after the other on store bs
RECURSIVE RefFold(_, _, _)
RefFold(bs, ps, k) ==
  IF k > Len(ps) THEN bs
  ELSE LET r == resolveBallCollision(bs[ps[k][1]], bs[ps[k][2]])
       IN  RefFold([bs EXCEPT ![ps[k][1]] = r.b1, ![ps[k][2]] = r.b2], ps, k + 1)

-----------------------------------------------------------------------------
(* SpecFrame: the frame callback on a page whose sliders and canvas size   *)
(* change between frames.  One ball of radius 1 m and mass 2 kg; the       *)
(* sliders and the canvas are state, changed by input events that the      *)
(* event loop runs between callbacks.                                      *)

FrameSliders ==
  { [gravity |-> g, friction |-> f, drag |-> d] :
      g \in {I(0), I(1)}, f \in {I(0), R(1, 2)}, d \in {I(0), R(40, 77)} }

FrameCanvases ==
  { [width |-> I(300), height |-> I(250)], [width |-> I(500), height |-> I(400)] }

\* Gaps between frames, in ms
FrameStepGapMs == {1000}

\* Mutant of getCurrentPhysicsState: the object of the first frame kept
getCurrentPhysicsStateCached(ctl, deltaTime) ==
  IF frame = 0
  THEN createPhysicsState(ctl.gravity, ctl.friction, ctl.drag, deltaTime)
  ELSE [physics EXCEPT !.deltaTime = deltaTime]

\* main.js getCurrentPhysicsState (lines 38-44) and update lines 54-55: a
\* new object from the sliders' values, with the frame's deltaTime
getCurrentPhysicsState(ctl, deltaTime) ==
  createPhysicsState(ctl.gravity, ctl.friction, ctl.drag, deltaTime)

InitFrame ==
  /\ pc = "idle"
  /\ lastTime = 0
  /\ physics = NoPhysics
  /\ canvas \in FrameCanvases
  /\ controls \in FrameSliders
  /\ rafPending = 1
  /\ frame = 0
  /\ calls = << >>
  /\ rendered = << >>
  /\ balls = << PairBall(I(200), I(150), I(1), I(0), I(1), I(2)) >>
  /\ loop = NoLoop
  /\ pre = << >>
  /\ passes = 0
  /\ path = "none"

\* The frame callback starts: update lines 47-57, up to updatePhysics, with
\* the sliders read by getCurrentPhysicsState
FrameIntegrateControls ==
  /\ TaskCanStart
  /\ rafPending > 0
  /\ frame <= MaxFrames
  /\ CallAfter(pc) = "updatePhysics"
  /\ \E currentTime \in (IF lastTime = 0 THEN {FirstFrameMs}
                          ELSE {lastTime + gap : gap \in FrameStepGapMs}) :
        /\ physics' = getCurrentPhysicsState(controls, DeltaTime(currentTime))
        /\ lastTime' = currentTime
        /\ balls' = updatePhysics(balls, DeltaTime(currentTime), physics')
  /\ rafPending' = rafPending - 1
  /\ pc' = "updatePhysics"
  /\ calls' = << "updatePhysics" >>
  /\ UNCHANGED <<canvas, frame, rendered>>
  /\ HarnessUnchanged

\* An input event on a slider, between two callbacks
SliderInput ==
  /\ TaskCanStart
  /\ controls' \in FrameSliders \ {controls}
  /\ UNCHANGED <<balls, pc, lastTime, physics, canvas, rafPending, frame, calls,
                 rendered, loop, pre, passes, path>>

\* The canvas gets another size, between two callbacks
CanvasResize ==
  /\ TaskCanStart
  /\ canvas' \in FrameCanvases \ {canvas}
  /\ UNCHANGED <<balls, pc, lastTime, physics, controls, rafPending, frame, calls,
                 rendered, loop, pre, passes, path>>

NextFrame ==
  \/ FrameIntegrateControls
  \/ FrameBallCollisions
  \/ FrameWallCollisions
  \/ FrameRender
  \/ SliderInput
  \/ CanvasResize

SpecFrame == InitFrame /\ [][NextFrame]_vars

\* The physics parameters as the sliders hold them now
SlidersNow(deltaTime) ==
  [gravity |-> controls.gravity, friction |-> controls.friction,
   drag |-> controls.drag, deltaTime |-> deltaTime]

\* C15: every phase of a frame works with the values the sliders and the
\* canvas hold at that frame, whatever they held at the frame before: the
\* integrator with the gravity and drag of the sliders, the boundary pass
\* with their gravity and friction and with the canvas size.
C15_ReadFresh ==
  [][ /\ (pc = "idle" /\ pc' = "updatePhysics") =>
           /\ physics' = SlidersNow(physics'.deltaTime)
           /\ balls' = updatePhysics(balls, physics'.deltaTime,
                                     SlidersNow(physics'.deltaTime))
      /\ (pc = "handleBallCollisions" /\ pc' = "handleWallCollisions") =>
           balls' = handleWallCollisions(balls, SlidersNow(physics.deltaTime),
                                         getCanvasDimensions(canvas)) ]_vars

\* The third frame has run its boundary pass with gravity 1 on the small
\* canvas, after a second frame drawn with gravity 0 on the large one
C15_Witness ==
  /\ frame = 2
  /\ pc = "handleWallCollisions"
  /\ RGt(rendered[1].x, I(200))
  /\ rendered[1].y = I(150)
  /\ rendered[1].vy = I(0)
  /\ canvas.width = I(300)
  /\ controls.gravity = I(1)
  /\ balls[1].x = I(200)
  /\ balls[1].vy = R(-7, 10)

=============================================================================
